---- MODULE Spec2Model ----
(***************************************************************************)
(* String-analysis service: the in-memory record store (stringStore), its  *)
(* handlers addString, getString, getAllStringsWithFiltering,              *)
(* filterByNaturalLanguage and deleteString, and the strings.json file the *)
(* handlers rewrite with fs.writeFile.                                     *)
(*                                                                         *)
(* A JavaScript string is a sequence of one-character strings.             *)
(***************************************************************************)
EXTENDS Integers, Sequences, FiniteSets, TLC

VARIABLES
    strings,   \* stringStore.strings: the records, in insertion order
    file,      \* the records last written to strings.json
    writes,    \* fs.writeFile promises still pending
    io,        \* the fs.writeFile promise that settled last, and how
    req,       \* the request received last (rid counts the requests)
    res,       \* the response sent last (rid names the request it answers)
    now,       \* the clock new Date() reads
    acked      \* the records returned with 201 for which no delete has been sent since

vars == <<strings, file, writes, io, req, res, now, acked>>

----------------------------------------------------------------------------
\* Bounds of the model.

\* Requests the server receives in one behaviour.
MaxReqs == 3
\* Largest value of the clock.
MaxClock == 1

----------------------------------------------------------------------------
\* Strings.

\* The character c, n times.
Repeat(c, n) == [i \in 1..n |-> c]

\* _.toLower, one character: the upper-case letters of the inputs.
LowerChar(c) ==
    CASE c = "A" -> "a"
      [] c = "B" -> "b"
      [] c = "F" -> "f"
      [] c = "S" -> "s"
      [] c = "Z" -> "z"
      [] OTHER -> c

\* _.toLower
toLower(s) == [i \in 1..Len(s) |-> LowerChar(s[i])]

\* White space, as String.prototype.trim and the pattern \s see it.
IsSpace(c) == c = " "

\* String.prototype.trim
trim(s) ==
    LET keep == {i \in 1..Len(s) : ~IsSpace(s[i])}
        Min(S) == CHOOSE x \in S : \A y \in S : x <= y
        Max(S) == CHOOSE x \in S : \A y \in S : x >= y
    IN  IF keep = {} THEN <<>> ELSE SubSeq(s, Min(keep), Max(keep))

\* value.split("").reverse().join("")
reverse(s) == [i \in 1..Len(s) |-> s[Len(s) + 1 - i]]

\* String.prototype.includes
includes(s, sub) ==
    \E i \in 0..(Len(s) - Len(sub)) : SubSeq(s, i + 1, i + Len(sub)) = sub

\* crypto.createHash("sha256").update(value).digest("hex"): a digest that is a
\* function of the value alone and differs for different values.
sha256(value) == <<"sha256", value>>

\* value.trim() === "" ? 0 : value.trim().split(/\s+/).length
wordCount(value) ==
    LET t == trim(value)
    IN  IF t = <<>> THEN 0
        ELSE Cardinality({i \in 1..Len(t) :
                 ~IsSpace(t[i]) /\ (i = 1 \/ IsSpace(t[i - 1]))})

\* The reduce over value.split(""): each distinct character to its count.
characterFrequencyMap(value) ==
    LET chars == {value[i] : i \in 1..Len(value)}
    IN  [c \in chars |-> Cardinality({i \in 1..Len(value) : value[i] = c})]

\* The properties addString computes from the normalized value.
deriveProperties(value) ==
    [length |-> Len(value),
     is_palindrome |-> (value = reverse(value)),
     unique_characters |-> Cardinality({value[i] : i \in 1..Len(value)}),
     word_count |-> wordCount(value),
     sha256_hash |-> sha256(value),
     character_frequency_map |-> characterFrequencyMap(value)]

\* The record addString appends and returns.
newRecord(value, created_at) ==
    [id |-> sha256(value),
     value |-> value,
     properties |-> deriveProperties(value),
     created_at |-> created_at]

\* The character a percent escape stands for (the escapes of the inputs).
HexChar(h, l) ==
    CASE h = "4" /\ l = "1" -> "A"
      [] h = "6" /\ l = "1" -> "a"
      [] OTHER -> "?"

IsEscape(h, l) == <<h, l>> \in {<<"4", "1">>, <<"6", "1">>}

\* decodeURIComponent: ok is FALSE where it throws URIError (a "%" that two
\* hexadecimal digits do not follow).
RECURSIVE decodeURIComponent(_)
decodeURIComponent(s) ==
    IF s = <<>> THEN [ok |-> TRUE, val |-> <<>>]
    ELSE IF Head(s) # "%"
         THEN LET r == decodeURIComponent(Tail(s))
              IN  [ok |-> r.ok, val |-> <<Head(s)>> \o r.val]
    ELSE IF Len(s) >= 3 /\ IsEscape(s[2], s[3])
         THEN LET r == decodeURIComponent(SubSeq(s, 4, Len(s)))
              IN  [ok |-> r.ok, val |-> <<HexChar(s[2], s[3])>> \o r.val]
    ELSE [ok |-> FALSE, val |-> <<>>]

----------------------------------------------------------------------------
\* Requests and responses.

\* A request value as Express hands it over: req.body.value, a route parameter
\* or one query parameter. vals holds the string, or the strings of an array.
Raw(kind, vals) == [kind |-> kind, vals |-> vals]
Absent == Raw("absent", <<>>)
RawString(s) == Raw("string", <<s>>)

\* req.query of a request that carries no query parameter.
NoQuery ==
    [is_palindrome |-> Absent, min_length |-> Absent, max_length |-> Absent,
     word_count |-> Absent, contains_character |-> Absent]

Request(rid, op, arg, query) ==
    [rid |-> rid, op |-> op, arg |-> arg, query |-> query]

\* appliedFilters before any filter is applied: keys is Object.keys().
NoFilters ==
    [keys |-> {}, is_palindrome |-> FALSE, min_length |-> 0, max_length |-> 0,
     word_count |-> 0, contains_character |-> <<>>]

\* A response: the status and the fields of the JSON body that are present.
Response(rid, op, status) ==
    [rid |-> rid, op |-> op, status |-> status, error |-> "", record |-> <<>>,
     data |-> <<>>, count |-> 0, filters_applied |-> NoFilters,
     parsed_filters |-> <<>>, original |-> <<>>, message |-> ""]

ErrorResponse(rid, op, status, error) ==
    [Response(rid, op, status) EXCEPT !.error = error]

RecordResponse(rid, op, status, record) ==
    [Response(rid, op, status) EXCEPT !.record = <<record>>]

\* The strings the store handlers are sent.
StoreStrings ==
    { <<"a">>, <<"A">>, <<"%">>, <<"%", "4", "1">> }

\* req.body.value of POST /strings.
AddBodies ==
    {Raw("undefined", <<>>), Raw("number", <<>>)}
        \cup {RawString(s) : s \in StoreStrings}

\* req.params.string of GET and DELETE /strings/:string.
RouteParams == StoreStrings

\* A normalization that keeps the casing of the value.
normalizedValueKeepingCase(value) == value

\* value = _.toLower(value) in addString
normalizedValue(value) == toLower(value)

\* stringStore.strings.findIndex((str) => str.value === v), 0 for -1.
findIndex(store, v) ==
    IF \E i \in 1..Len(store) : store[i].value = v
    THEN CHOOSE i \in 1..Len(store) :
             store[i].value = v /\ \A j \in 1..(i - 1) : store[j].value # v
    ELSE 0

\* updatedStrings.splice(existingIndex, 1)
splice(store, i) == SubSeq(store, 1, i - 1) \o SubSeq(store, i + 1, Len(store))

\* A pending fs.writeFile(filePath, JSON.stringify(stringStore.strings)) and
\* the handler that started it.
Write(rid, op, param, data) ==
    [rid |-> rid, op |-> op, param |-> param, data |-> data]

----------------------------------------------------------------------------
\* The store.

Init ==
    /\ strings = <<>>
    /\ file = <<>>
    /\ writes = {}
    /\ io = [rid |-> 0, outcome |-> "none"]
    /\ req = Request(0, "none", Absent, NoQuery)
    /\ res = Response(0, "none", 0)
    /\ now = 0
    /\ acked = {}

\* POST /strings. The write is started and not awaited; t is the clock's reading.
addString(body, t) ==
    /\ req.rid < MaxReqs
    /\ t \in now..MaxClock
    /\ LET rid == req.rid + 1 IN
       /\ req' = Request(rid, "addString", body, NoQuery)
       /\ IF body.kind \in {"undefined", "null"}
          THEN /\ res' = ErrorResponse(rid, "addString", 400, "Value is required.")
               /\ UNCHANGED <<strings, file, writes, io, now, acked>>
          ELSE IF body.kind # "string"
          THEN /\ res' = ErrorResponse(rid, "addString", 422, "Value must be a string.")
               /\ UNCHANGED <<strings, file, writes, io, now, acked>>
          ELSE LET value == normalizedValue(body.vals[1]) IN
               IF findIndex(strings, value) # 0
               THEN /\ res' = ErrorResponse(rid, "addString", 409, "String already exists.")
                    /\ UNCHANGED <<strings, file, writes, io, now, acked>>
               ELSE LET record == newRecord(value, t) IN
                    /\ now' = t
                    /\ strings' = Append(strings, record)
                    /\ writes' = writes \cup {Write(rid, "addString", body.vals[1], strings')}
                    /\ res' = RecordResponse(rid, "addString", 201, record)
                    /\ acked' = {r \in acked : r.value # value} \cup {record}
                    /\ UNCHANGED <<file, io>>

\* GET /strings/:string
getString(param) ==
    /\ req.rid < MaxReqs
    /\ LET rid == req.rid + 1
           string == toLower(param)
           i == findIndex(strings, string)
       IN  /\ req' = Request(rid, "getString", RawString(param), NoQuery)
           /\ res' = IF i = 0
                     THEN ErrorResponse(rid, "getString", 404, "String not found.")
                     ELSE RecordResponse(rid, "getString", 200,
                              [id |-> strings[i].id,
                               value |-> string,
                               properties |-> strings[i].properties,
                               created_at |-> strings[i].created_at])
    /\ UNCHANGED <<strings, file, writes, io, now, acked>>

\* DELETE /strings/:string, up to its await: the response follows the write.
deleteString(param) ==
    /\ req.rid < MaxReqs
    /\ LET rid == req.rid + 1
           decoded == decodeURIComponent(param)
           existingIndex == findIndex(strings, toLower(decoded.val))
       IN  /\ req' = Request(rid, "deleteString", RawString(param), NoQuery)
           /\ acked' = {r \in acked : r.value # toLower(param)}
           /\ IF param = <<>>
              THEN /\ res' = Response(rid, "deleteString", 404)
                   /\ UNCHANGED <<strings, writes>>
              ELSE IF ~decoded.ok
              THEN /\ res' = ErrorResponse(rid, "deleteString", 500, "Server error")
                   /\ UNCHANGED <<strings, writes>>
              ELSE IF existingIndex = 0
              THEN /\ res' = Response(rid, "deleteString", 404)
                   /\ UNCHANGED <<strings, writes>>
              ELSE /\ strings' = splice(strings, existingIndex)
                   /\ writes' = writes \cup {Write(rid, "deleteString", param, strings')}
                   /\ UNCHANGED res
    /\ UNCHANGED <<file, io, now>>

\* A pending write completes: the file holds what that write was given. A
\* deleteString waiting on it sends 204; addString has answered already.
writeFulfilled(w) ==
    /\ w \in writes
    /\ writes' = writes \ {w}
    /\ file' = w.data
    /\ io' = [rid |-> w.rid, outcome |-> "fulfilled"]
    /\ res' = IF w.op = "deleteString"
              THEN Response(w.rid, "deleteString", 204)
              ELSE res
    /\ UNCHANGED <<strings, req, now, acked>>

\* A pending write fails and the file keeps what it held. deleteString catches
\* the rejection and sends 500, the record staying removed; nothing handles
\* the rejection of the write addString started, and no response follows it.
writeRejected(w) ==
    /\ w \in writes
    /\ writes' = writes \ {w}
    /\ io' = [rid |-> w.rid, outcome |-> "rejected"]
    /\ res' = IF w.op = "deleteString"
              THEN ErrorResponse(w.rid, "deleteString", 500, "Server error")
              ELSE res
    /\ UNCHANGED <<strings, file, req, now, acked>>

Next ==
    \/ \E body \in AddBodies, t \in 0..MaxClock : addString(body, t)
    \/ \E param \in RouteParams : getString(param)
    \/ \E param \in RouteParams \cup {<<>>} : deleteString(param)
    \/ \E w \in writes : writeFulfilled(w)
    \/ \E w \in writes : writeRejected(w)

Spec == Init /\ [][Next]_vars

\* The same server on a disk whose writes never fail.
NextNoFail ==
    \/ \E body \in AddBodies, t \in 0..MaxClock : addString(body, t)
    \/ \E param \in RouteParams : getString(param)
    \/ \E param \in RouteParams \cup {<<>>} : deleteString(param)
    \/ \E w \in writes : writeFulfilled(w)

SpecNoFail == Init /\ [][NextNoFail]_vars

----------------------------------------------------------------------------
\* GET /strings: the structured filters.

\* p.toLowerCase() of an is_palindrome parameter.
StrTrue == <<"t", "r", "u", "e">>
StrFalse == <<"f", "a", "l", "s", "e">>

\* is_palindrome: "undefined" (not provided), "value" or "invalid" (400).
parseIsPalindrome(raw) ==
    IF raw.kind = "absent" THEN [state |-> "undefined", v |-> FALSE]
    ELSE IF raw.kind = "string"
    THEN LET lower == toLower(raw.vals[1]) IN
         IF lower = StrTrue THEN [state |-> "value", v |-> TRUE]
         ELSE IF lower = StrFalse THEN [state |-> "value", v |-> FALSE]
         ELSE [state |-> "invalid", v |-> FALSE]
    ELSE [state |-> "invalid", v |-> FALSE]

Digits == {"0", "1", "2", "3", "4", "5", "6", "7", "8", "9"}

DigitValue(c) ==
    CASE c = "0" -> 0 [] c = "1" -> 1 [] c = "2" -> 2 [] c = "3" -> 3
      [] c = "4" -> 4 [] c = "5" -> 5 [] c = "6" -> 6 [] c = "7" -> 7
      [] c = "8" -> 8 [] c = "9" -> 9

\* Number(s) of a non-empty trimmed string, for strings of decimal digits and
\* of letters: the digits' value, or NaN (finite is FALSE).
RECURSIVE DecimalValue(_)
DecimalValue(s) ==
    IF s = <<>> THEN 0
    ELSE 10 * DecimalValue(SubSeq(s, 1, Len(s) - 1)) + DigitValue(s[Len(s)])

Number(s) ==
    IF \A i \in 1..Len(s) : s[i] \in Digits
    THEN [finite |-> TRUE, n |-> DecimalValue(s)]
    ELSE [finite |-> FALSE, n |-> 0]

\* parseNumberParam: "undefined" (not provided), "null" (400) or "number".
parseNumberParam(raw) ==
    IF raw.kind = "absent" THEN [state |-> "undefined", n |-> 0]
    ELSE LET s == trim(raw.vals[1])
             n == Number(s)
         IN  IF s = <<>> THEN [state |-> "null", n |-> 0]
             ELSE IF ~n.finite THEN [state |-> "null", n |-> 0]
             ELSE [state |-> "number", n |-> n.n]

\* contains_character_values: the entries trimmed, the empty ones dropped;
\* the empty sequence stands for undefined.
containsCharacterValues(raw) ==
    IF raw.kind = "absent" THEN <<>>
    ELSE LET trimmed == [i \in 1..Len(raw.vals) |-> trim(raw.vals[i])]
             NonEmpty(v) == Len(v) > 0
         IN  SelectSeq(trimmed, NonEmpty)

\* A match that asks for every one of the values.
containsEvery(value, vals) ==
    \A i \in 1..Len(vals) : includes(value, vals[i])

\* contains_character_values.some((val) => str.value.includes(val))
containsAny(value, vals) ==
    \E i \in 1..Len(vals) : includes(value, vals[i])

atLeast(length, min_length) == length >= min_length
atMost(length, max_length) == length <= max_length

\* The filters applied one after the other, and appliedFilters.
applyFilters(store, is_palindrome, min_length, max_length, word_count, values) ==
    LET ByPalindrome(str) == str.properties.is_palindrome = is_palindrome.v
        ByMinLength(str) == atLeast(str.properties.length, min_length.n)
        ByMaxLength(str) == atMost(str.properties.length, max_length.n)
        ByWordCount(str) == str.properties.word_count = word_count.n
        ByCharacters(str) == containsAny(str.value, values)
        f1 == IF is_palindrome.state = "value"
              THEN SelectSeq(store, ByPalindrome) ELSE store
        f2 == IF min_length.state = "number" THEN SelectSeq(f1, ByMinLength) ELSE f1
        f3 == IF max_length.state = "number" THEN SelectSeq(f2, ByMaxLength) ELSE f2
        f4 == IF word_count.state = "number" THEN SelectSeq(f3, ByWordCount) ELSE f3
        f5 == IF Len(values) > 0 THEN SelectSeq(f4, ByCharacters) ELSE f4
        keys == (IF is_palindrome.state = "value" THEN {"is_palindrome"} ELSE {})
                \cup (IF min_length.state = "number" THEN {"min_length"} ELSE {})
                \cup (IF max_length.state = "number" THEN {"max_length"} ELSE {})
                \cup (IF word_count.state = "number" THEN {"word_count"} ELSE {})
                \cup (IF Len(values) > 0 THEN {"contains_character"} ELSE {})
    IN  [data |-> f5,
         applied |-> [keys |-> keys,
                      is_palindrome |-> is_palindrome.v,
                      min_length |-> min_length.n,
                      max_length |-> max_length.n,
                      word_count |-> word_count.n,
                      contains_character |-> values]]

\* The response of getAllStringsWithFiltering to req.query over the store.
filteringResponse(rid, store, query) ==
    LET op == "getAllStringsWithFiltering"
        is_palindrome == parseIsPalindrome(query.is_palindrome)
        min_length == parseNumberParam(query.min_length)
        max_length == parseNumberParam(query.max_length)
        word_count == parseNumberParam(query.word_count)
        values == containsCharacterValues(query.contains_character)
        out == applyFilters(store, is_palindrome, min_length, max_length,
                            word_count, values)
    IN  IF is_palindrome.state = "invalid"
        THEN ErrorResponse(rid, op, 400, "is_palindrome must be 'true' or 'false'")
        ELSE IF min_length.state = "null"
        THEN ErrorResponse(rid, op, 400, "min_length must be a valid number")
        ELSE IF max_length.state = "null"
        THEN ErrorResponse(rid, op, 400, "max_length must be a valid number")
        ELSE IF word_count.state = "null"
        THEN ErrorResponse(rid, op, 400, "word_count must be a valid number")
        ELSE IF /\ min_length.state = "number"
                /\ max_length.state = "number"
                /\ min_length.n > max_length.n
        THEN ErrorResponse(rid, op, 400,
                           "min_length cannot be greater than max_length")
        ELSE [Response(rid, op, 200) EXCEPT
                 !.data = out.data,
                 !.count = Len(out.data),
                 !.filters_applied = out.applied]

getAllStringsWithFiltering(query) ==
    /\ req.rid < MaxReqs
    /\ req' = Request(req.rid + 1, "getAllStringsWithFiltering", Absent, query)
    /\ res' = filteringResponse(req.rid + 1, strings, query)
    /\ UNCHANGED <<strings, file, writes, io, now, acked>>

----------------------------------------------------------------------------
\* GET /strings/filter-by-natural-language: the phrase table.

PhraseSingleWordPalindromes ==
    <<"a", "l", "l", " ", "s", "i", "n", "g", "l", "e", " ", "w",
      "o", "r", "d", " ", "p", "a", "l", "i", "n", "d", "r", "o",
      "m", "i", "c", " ", "s", "t", "r", "i", "n", "g", "s">>

PhraseLongerThan10 ==
    <<"s", "t", "r", "i", "n", "g", "s", " ", "l", "o", "n", "g",
      "e", "r", " ", "t", "h", "a", "n", " ", "1", "0", " ", "c",
      "h", "a", "r", "a", "c", "t", "e", "r", "s">>

PhrasePalindromesWithFirstVowel ==
    <<"p", "a", "l", "i", "n", "d", "r", "o", "m", "i", "c", " ",
      "s", "t", "r", "i", "n", "g", "s", " ", "t", "h", "a", "t",
      " ", "c", "o", "n", "t", "a", "i", "n", " ", "t", "h", "e",
      " ", "f", "i", "r", "s", "t", " ", "v", "o", "w", "e", "l">>

PhraseContainingZ ==
    <<"s", "t", "r", "i", "n", "g", "s", " ", "c", "o", "n", "t",
      "a", "i", "n", "i", "n", "g", " ", "t", "h", "e", " ", "l",
      "e", "t", "t", "e", "r", " ", "z">>

PhraseUnknown ==
    <<"w", "h", "a", "t", " ", "i", "s", " ", "a", " ", "p", "a",
      "l", "i", "n", "d", "r", "o", "m", "e">>

PhrasePaddedUpper ==
    <<" ", "S", "t", "r", "i", "n", "g", "s", " ", "c", "o", "n",
      "t", "a", "i", "n", "i", "n", "g", " ", "t", "h", "e", " ",
      "l", "e", "t", "t", "e", "r", " ", "Z", " ">>

\* A comparison that lets the bound itself through.
longerThanOrEqual(length, n) == length >= n

\* (s.properties?.length ?? 0) > 10
longerThan(length, n) == length > n

\* The switch over the normalized query: the filter of each phrase and the
\* parsed_filters it pushes; known is FALSE in the default case.
naturalLanguageFilter(store, query) ==
    LET SingleWordPalindrome(s) ==
            s.properties.is_palindrome = TRUE /\ s.properties.word_count = 1
        Long(s) == longerThan(s.properties.length, 10)
        PalindromeWithA(s) ==
            s.properties.is_palindrome = TRUE /\ includes(toLower(s.value), <<"a">>)
        WithZ(s) == includes(toLower(s.value), <<"z">>)
    IN  IF query = PhraseSingleWordPalindromes
        THEN [known |-> TRUE, data |-> SelectSeq(store, SingleWordPalindrome),
              parsed_filters |-> <<"is_palindrome: true", "word_count: 1">>]
        ELSE IF query = PhraseLongerThan10
        THEN [known |-> TRUE, data |-> SelectSeq(store, Long),
              parsed_filters |-> <<"min_length: 11">>]
        ELSE IF query = PhrasePalindromesWithFirstVowel
        THEN [known |-> TRUE, data |-> SelectSeq(store, PalindromeWithA),
              parsed_filters |-> <<"is_palindrome: true", "contains_character: \"a\"">>]
        ELSE IF query = PhraseContainingZ
        THEN [known |-> TRUE, data |-> SelectSeq(store, WithZ),
              parsed_filters |-> <<"contains_character: \"z\"">>]
        ELSE [known |-> FALSE, data |-> <<>>, parsed_filters |-> <<>>]

\* The response of filterByNaturalLanguage to the raw query over the store.
naturalLanguageResponse(rid, store, raw) ==
    LET op == "filterByNaturalLanguage" IN
    IF raw.kind = "absent"
    THEN ErrorResponse(rid, op, 400, "Query is required.")
    ELSE LET queryStr == raw.vals[1]
             query == toLower(trim(queryStr))
             out == naturalLanguageFilter(store, query)
         IN  IF out.known
             THEN [Response(rid, op, 200) EXCEPT
                      !.data = out.data,
                      !.count = Len(out.data),
                      !.original = queryStr,
                      !.parsed_filters = out.parsed_filters]
             ELSE [Response(rid, op, 200) EXCEPT
                      !.original = queryStr,
                      !.message = "Could not parse natural language query"]

filterByNaturalLanguage(raw) ==
    /\ req.rid < MaxReqs
    /\ req' = Request(req.rid + 1, "filterByNaturalLanguage", raw, NoQuery)
    /\ res' = naturalLanguageResponse(req.rid + 1, strings, raw)
    /\ UNCHANGED <<strings, file, writes, io, now, acked>>

----------------------------------------------------------------------------
\* The query engines over a store that earlier requests have filled.

\* Values of the stored records.
QueryValues ==
    { <<>>, <<"a">>, <<"z", "a">>, <<"a", " ", "a">>, <<"z", "z">>,
      Repeat("z", 10), Repeat("a", 10) \o <<"b">> }

RECURSIVE StoresOfLength(_)
StoresOfLength(n) ==
    IF n = 0 THEN {<<>>}
    ELSE {Append(st, newRecord(v, 0)) :
             <<st, v>> \in {p \in StoresOfLength(n - 1) \X QueryValues :
                               findIndex(p[1], p[2]) = 0}}

\* The stores MaxReqs - 1 insertions can build.
QueryStores == UNION {StoresOfLength(n) : n \in 0..(MaxReqs - 1)}

PalindromeRaws ==
    {Absent, RawString(StrTrue), RawString(<<"F", "a", "l", "s", "e">>),
     RawString(<<"y", "e", "s">>)}
MinLengthRaws ==
    {Absent, RawString(<<"2">>), RawString(<<" ", "1", "1", " ">>), RawString(<<"x">>)}
MaxLengthRaws ==
    {Absent, RawString(<<"1">>), RawString(<<"1", "0">>), Raw("array", <<<<"3">>, <<"0">>>>)}
WordCountRaws ==
    {Absent, RawString(<<"0">>), RawString(<<"1">>), RawString(<<>>)}
ContainsRaws ==
    {Absent, RawString(<<"a">>), RawString(<<"z">>), RawString(<<" ">>),
     RawString(<<"a", " ">>), Raw("array", <<<<"z">>, <<"a", " ", "a">>>>),
     Raw("array", <<<<" ">>, <<"b">>>>)}

Queries ==
    [is_palindrome : PalindromeRaws, min_length : MinLengthRaws,
     max_length : MaxLengthRaws, word_count : WordCountRaws,
     contains_character : ContainsRaws]

NaturalLanguageRaws ==
    {Absent, RawString(PhraseSingleWordPalindromes), RawString(PhraseLongerThan10),
     RawString(PhrasePalindromesWithFirstVowel), RawString(PhraseContainingZ),
     RawString(PhraseUnknown), RawString(PhrasePaddedUpper),
     Raw("array", <<PhraseLongerThan10, PhraseUnknown>>)}

InitQuery ==
    /\ strings \in QueryStores
    /\ file = strings
    /\ writes = {}
    /\ io = [rid |-> 0, outcome |-> "none"]
    /\ req = Request(MaxReqs - 1, "none", Absent, NoQuery)
    /\ res = Response(0, "none", 0)
    /\ now = 0
    /\ acked = {}

NextQuery ==
    \/ \E query \in Queries : getAllStringsWithFiltering(query)
    \/ \E raw \in NaturalLanguageRaws : filterByNaturalLanguage(raw)

SpecQuery == InitQuery /\ [][NextQuery]_vars

----------------------------------------------------------------------------
\* Properties of the store.

IsRequest(op) == req'.rid = req.rid + 1 /\ req'.op = op

\* The string a request carries.
Sent(r) == r.arg.vals[1]

\* C1: no two records of stringStore.strings have the same value under
\* case-insensitive comparison.
C1_UniqueIgnoringCase ==
    \A i, j \in 1..Len(strings) :
        toLower(strings[i].value) = toLower(strings[j].value) => i = j

\* C1 at work: two records are stored and an insertion in another casing of a
\* stored value has just been answered 409.
C1_Witness ==
    /\ Len(strings) >= 2
    /\ req.op = "addString" /\ req.arg.kind = "string"
    /\ Sent(req) # toLower(Sent(req))
    /\ res.rid = req.rid /\ res.status = 409

\* C2: an insertion of a value that was inserted with success, in any casing
\* and with no delete of it sent since, is answered 409 and leaves the
\* collection unchanged; an insertion of a value the store does not hold is
\* answered 201 and makes the collection one record longer.
C2_SecondInsertIsDuplicate ==
    [][(IsRequest("addString") /\ req'.arg.kind = "string") =>
          LET value == toLower(Sent(req')) IN
          /\ (\E r \in acked : r.value = value) =>
                 /\ res'.rid = req'.rid /\ res'.status = 409
                 /\ strings' = strings
          /\ findIndex(strings, value) = 0 =>
                 /\ res'.rid = req'.rid /\ res'.status = 201
                 /\ Len(strings') = Len(strings) + 1]_vars

\* C3: a delete of a value the store does not hold is answered 404, leaves
\* the collection unchanged and starts no write.
C3_DeleteOfAbsentValue ==
    [][(IsRequest("deleteString") /\ findIndex(strings, toLower(Sent(req'))) = 0) =>
          /\ res'.rid = req'.rid /\ res'.status = 404
          /\ strings' = strings
          /\ writes' = writes /\ file' = file]_vars

\* C4: no 201 or 204 has been sent for a request whose write is still pending.
C4_WriteCompleteBeforeSuccess ==
    res.status \in {201, 204} => \A w \in writes : w.rid # res.rid

\* C5: when a write fails, the request that started it is answered with an
\* error and the collection in memory equals the collection on disk.
C5_WriteFailureSurfaces ==
    [][(io'.rid # io.rid /\ io'.outcome = "rejected") =>
          /\ res'.rid = io'.rid /\ res'.status >= 400
          /\ strings' = file']_vars

\* C6: once every write that was started has completed, the file holds the
\* collection in memory.
C6_FileEqualsMemoryWhenQuiet ==
    writes = {} => file = strings

\* C9: a lookup, in any casing, of a value that was inserted with success and
\* for which no delete has been sent since is answered 200 with the record the
\* insertion returned: value and id of the lower-cased string, the properties
\* derived from it and the created_at of the insertion.
C9_LookupReturnsInsertedRecord ==
    [][IsRequest("getString") =>
          \A r \in acked :
              r.value = toLower(Sent(req')) =>
                  /\ res'.rid = req'.rid /\ res'.status = 200
                  /\ res'.record = <<r>>
                  /\ r.id = sha256(r.value)
                  /\ r.properties = deriveProperties(r.value)]_vars

\* C10: a delete request for v changes the collection only by removing the
\* one record whose value is lowercase(v); every other record stays, as it
\* was and in the same order.
C10_DeleteRemovesExactMatchOnly ==
    [][IsRequest("deleteString") =>
          \/ strings' = strings
          \/ \E i \in 1..Len(strings) :
                 /\ strings[i].value = toLower(Sent(req'))
                 /\ strings' = splice(strings, i)]_vars

----------------------------------------------------------------------------
\* Properties of the query engines.

FilteringOp == "getAllStringsWithFiltering"

\* The entries of a contains_character parameter as they were sent.
EntriesSent(raw) == {raw.vals[i] : i \in 1..Len(raw.vals)}

\* The entries trimmed, without those that are empty after trimming.
EntriesTrimmed(raw) == {trim(e) : e \in EntriesSent(raw)} \ {<<>>}

\* The records a query selects, and the filters it provides, when the
\* contains_character entries it counts are `entries`.
Selects(str, query, entries) ==
    LET is_palindrome == parseIsPalindrome(query.is_palindrome)
        min_length == parseNumberParam(query.min_length)
        max_length == parseNumberParam(query.max_length)
        word_count == parseNumberParam(query.word_count)
    IN  /\ is_palindrome.state = "value" =>
               str.properties.is_palindrome = is_palindrome.v
        /\ min_length.state = "number" => str.properties.length >= min_length.n
        /\ max_length.state = "number" => str.properties.length <= max_length.n
        /\ word_count.state = "number" => str.properties.word_count = word_count.n
        /\ entries # {} => \E e \in entries : includes(str.value, e)

Provided(query, entries) ==
    {k \in {"is_palindrome", "min_length", "max_length", "word_count"} :
        query[k].kind # "absent"}
    \cup (IF entries # {} THEN {"contains_character"} ELSE {})

FilteringAnswer(entries) ==
    LET Keep(str) == Selects(str, req.query, entries)
        applied == res.filters_applied
    IN  /\ res.data = SelectSeq(strings, Keep)
        /\ res.count = Len(res.data)
        /\ applied.keys = Provided(req.query, entries)
        /\ "is_palindrome" \in applied.keys =>
               applied.is_palindrome = parseIsPalindrome(req.query.is_palindrome).v
        /\ "min_length" \in applied.keys =>
               applied.min_length = parseNumberParam(req.query.min_length).n
        /\ "max_length" \in applied.keys =>
               applied.max_length = parseNumberParam(req.query.max_length).n
        /\ "word_count" \in applied.keys =>
               applied.word_count = parseNumberParam(req.query.word_count).n
        /\ "contains_character" \in applied.keys =>
               {applied.contains_character[i] :
                    i \in 1..Len(applied.contains_character)} = entries

FilteringAnswered == res.op = FilteringOp /\ res.rid = req.rid /\ res.status = 200

\* C7 as stated: a valid query is answered with exactly the records, in
\* insertion order, that satisfy every filter provided, a record matching
\* contains_character when its value contains one of the entries sent, and
\* filters_applied lists exactly the filters provided.
C7_FilterExactAsSent ==
    FilteringAnswered =>
        FilteringAnswer(IF req.query.contains_character.kind = "absent"
                        THEN {} ELSE EntriesSent(req.query.contains_character))

\* C7 amended: the same, with the contains_character entries taken after
\* trimming, and the entries that are empty after trimming not provided.
C7_FilterExactAfterTrim ==
    FilteringAnswered =>
        FilteringAnswer(EntriesTrimmed(req.query.contains_character))

\* C7 at work: three filter families, one of them contains_character with two
\* entries, select some of the records and not all.
C7_Witness ==
    /\ FilteringAnswered
    /\ Cardinality(res.filters_applied.keys) >= 3
    /\ Len(res.filters_applied.contains_character) = 2
    /\ Len(res.data) >= 1 /\ Len(res.data) < Len(strings)
    /\ \E i \in 1..Len(strings) :
           /\ includes(strings[i].value, res.filters_applied.contains_character[1])
           /\ ~includes(strings[i].value, res.filters_applied.contains_character[2])

\* The structured parameters each recognized phrase stands for.
EquivalentQuery(phrase) ==
    CASE phrase = PhraseSingleWordPalindromes ->
             [NoQuery EXCEPT !.is_palindrome = RawString(StrTrue),
                             !.word_count = RawString(<<"1">>)]
      [] phrase = PhraseLongerThan10 ->
             [NoQuery EXCEPT !.min_length = RawString(<<"1", "1">>)]
      [] phrase = PhrasePalindromesWithFirstVowel ->
             [NoQuery EXCEPT !.is_palindrome = RawString(StrTrue),
                             !.contains_character = RawString(<<"a">>)]
      [] phrase = PhraseContainingZ ->
             [NoQuery EXCEPT !.contains_character = RawString(<<"z">>)]

RecognizedPhrases ==
    {PhraseSingleWordPalindromes, PhraseLongerThan10,
     PhrasePalindromesWithFirstVowel, PhraseContainingZ}

RECURSIVE Text(_)
Text(s) == IF s = <<>> THEN "" ELSE Head(s) \o Text(Tail(s))

\* filters_applied written the way parsed_filters writes predicates.
Described(applied) ==
    (IF "is_palindrome" \in applied.keys
     THEN <<"is_palindrome: " \o (IF applied.is_palindrome THEN "true" ELSE "false")>>
     ELSE <<>>)
    \o (IF "min_length" \in applied.keys
        THEN <<"min_length: " \o ToString(applied.min_length)>> ELSE <<>>)
    \o (IF "max_length" \in applied.keys
        THEN <<"max_length: " \o ToString(applied.max_length)>> ELSE <<>>)
    \o (IF "word_count" \in applied.keys
        THEN <<"word_count: " \o ToString(applied.word_count)>> ELSE <<>>)
    \o [i \in 1..Len(applied.contains_character) |->
           "contains_character: \"" \o Text(applied.contains_character[i]) \o "\""]

NaturalLanguagePhrase ==
    IF req.arg.kind = "absent" THEN <<>> ELSE toLower(trim(Sent(req)))

NaturalLanguageAnswered ==
    /\ res.op = "filterByNaturalLanguage" /\ res.rid = req.rid
    /\ NaturalLanguagePhrase \in RecognizedPhrases

\* C8: for each recognized phrase filterByNaturalLanguage returns the records
\* getAllStringsWithFiltering returns for the equivalent parameters, in the
\* same order, and parsed_filters describes the filters that call applies.
C8_PhraseEqualsStructuredFilter ==
    NaturalLanguageAnswered =>
        LET structured ==
                filteringResponse(res.rid, strings, EquivalentQuery(NaturalLanguagePhrase))
        IN  /\ res.status = 200 /\ structured.status = 200
            /\ res.data = structured.data
            /\ res.count = structured.count
            /\ res.parsed_filters = Described(structured.filters_applied)

\* C8 at work: "strings longer than 10 characters" over a store that holds a
\* string of 10 characters and a longer one.
C8_Witness ==
    /\ NaturalLanguageAnswered
    /\ NaturalLanguagePhrase = PhraseLongerThan10
    /\ Len(res.data) = 1
    /\ \E i \in 1..Len(strings) : strings[i].properties.length = 10

====
